---- MODULE Spec2Model ----
(***************************************************************************)
(* A model of the lifecycle and reactivity core of rust-dominator          *)
(* (src/dom.rs): the DomBuilder, Dom, DomHandle, append_dom, the bindings  *)
(* built on set_option_str and set_class_signal, and the children          *)
(* bindings.  The Callbacks release list and the operations module are     *)
(* not part of dom.rs; they are modelled after the written specification.  *)
(***************************************************************************)
EXTENDS Integers, Sequences, FiniteSets, TLC

\* ---------------------------------------------------------------- bounds
\* Largest number of builder registrations over all builders together.
MaxRegs == 3
\* Longest sequence of values fed to one set_option_str / class binding.
MaxLen == 6
\* Largest number of polls of the window-ready signal.
MaxPolls == 7
\* Width in bits of the model's usize.
UsizeBits == 3
\* Largest number of ClassBuilder::new calls.
MaxCalls == 9

\* ------------------------------------------------------------- universe
Parent == "p"
Kids == {"a", "b"}
Nodes == {Parent} \cup Kids
Sheet == "s"
Builders == Nodes \cup {Sheet}
Body == "body"
AllIds == Builders \X (1..MaxRegs)
NoId == <<"none", 0>>

VARIABLES
    phase,          \* per builder: where the value is in its life
    reg,            \* per builder: the builder methods called so far
    cb,             \* per builder: its Callbacks {after_insert, after_remove}
    has_children,   \* DomBuilder.has_children
    tree,           \* children of the body and of the parent element
    log,            \* release actions run so far, in order
    subs,           \* live subscriptions, tasks and listeners
    effect,         \* the binding whose callback touched the tree last
    doms,           \* the children binding's Vec<Dom>
    is_inserted,    \* the children binding's "parent is in the tree" flag
    srcVec,         \* the contents of the reactive sequence
    optSet,         \* set_option_str: is_set
    optFed,         \* set_option_str: values produced by the signal so far
    optCalls,       \* set_option_str: calls of f so far
    clsSet,         \* set_class_signal: is_set
    clsFed,         \* set_class_signal: values produced by the signal so far
    clsCalls,       \* set_class_signal: add_class / remove_class calls so far
    focFed,         \* set_focused_signal: values produced by the signal so far
    focCalls,       \* set_focused_signal: set_focused calls so far
    winState,       \* IsWindowLoaded: Initial, Pending, Done (or dropped)
    readyState,     \* document.readyState
    loadFired,      \* the window's load event has been dispatched
    winSent,        \* the oneshot sender has sent
    winListeners,   \* load listeners of the signal now registered
    winAdds,        \* addEventListener("load") calls so far
    winRemoves,     \* removeEventListener("load") calls so far
    winYield,       \* results of poll_change so far
    winSender,      \* the oneshot sender is alive, in the load callback
    winReceiver,    \* the oneshot receiver is alive, in Pending
    winPanic,       \* the unwrap() that failed, if one did
    scrFed,         \* set_scroll_signal: values produced by the signal so far
    scrCalls,       \* set_scroll_signal: calls of f so far
    scrPos,         \* the scroll position of the element
    CLASS_ID,       \* ClassBuilder::new: the shared AtomicUsize
    classPc,        \* per thread: where its ClassBuilder::new call is
    classNames      \* class names returned so far

lifeVars == <<phase, reg, cb, has_children, tree, log, subs, effect, doms,
              is_inserted, srcVec>>
optVars == <<optSet, optFed, optCalls>>
clsVars == <<clsSet, clsFed, clsCalls>>
focVars == <<focFed, focCalls>>
winVars == <<winState, readyState, loadFired, winSent, winListeners, winAdds,
             winRemoves, winYield, winSender, winReceiver, winPanic>>
scrVars == <<scrFed, scrCalls, scrPos>>
classVars == <<CLASS_ID, classPc, classNames>>
vars == <<lifeVars, optVars, clsVars, focVars, winVars, scrVars, classVars>>

\* ------------------------------------------------------ sequence helpers
RECURSIVE SeqSum(_)
SeqSum(s) == IF s = <<>> THEN 0 ELSE Head(s) + SeqSum(Tail(s))

Range(s) == {s[i] : i \in DOMAIN s}

\* Vec::insert(index, value), 0-based
InsertAtSeq(s, i, x) == SubSeq(s, 1, i) \o <<x>> \o SubSeq(s, i + 1, Len(s))

\* Vec::remove(index), 0-based
RemoveAtSeq(s, i) == SubSeq(s, 1, i) \o SubSeq(s, i + 2, Len(s))

\* s[index] = value, 0-based
SetAtSeq(s, i, x) == [s EXCEPT ![i + 1] = x]

\* remove at old_index, insert at new_index, 0-based
MoveSeq(s, i, j) == InsertAtSeq(RemoveAtSeq(s, i), j, s[i + 1])

\* ------------------------------------------------------------- Callbacks
CallbacksNew == [after_insert |-> <<>>, after_remove |-> <<>>]

Action(kind, id) == [kind |-> kind, id |-> id]

after_insert(c, a) == [c EXCEPT !.after_insert = Append(@, a)]

after_remove(c, a) == [c EXCEPT !.after_remove = Append(@, a)]

\* leak(): "clears the on_detach sequence without running it"
leak(c) == [c EXCEPT !.after_remove = <<>>]

\* The part of the state the release actions read and write.
World == [cb |-> cb, log |-> log, subs |-> subs, tree |-> tree, doms |-> doms,
          is_inserted |-> is_inserted]

Commit(W) ==
    /\ cb' = W.cb
    /\ log' = W.log
    /\ subs' = W.subs
    /\ tree' = W.tree
    /\ doms' = W.doms
    /\ is_inserted' = W.is_inserted

RECURSIVE RunDetachSeq(_, _)
RECURSIVE DiscardEach(_, _)
RECURSIVE RunAttachSeq(_, _, _)
RECURSIVE AttachEach(_, _)

\* Callbacks::discard / drop-time drain: every on_detach action, in
\* registration order; the on_attach actions are dropped unrun.
DiscardCallbacks(n, W) ==
    RunDetachSeq(W.cb[n].after_remove, [W EXCEPT !.cb[n] = CallbacksNew])

DiscardEach(ns, W) ==
    IF ns = <<>> THEN W ELSE DiscardEach(Tail(ns), DiscardCallbacks(Head(ns), W))

\* EventListenerHandle::discard: removeEventListener(event, listener) on the
\* element, with the listener value that addEventListener was given
EventListenerHandle_discard(id, listeners) == listeners \ {id}

\* One on_detach action: a handle is cancelled, a closure is called; the
\* children binding's handle also detaches every child it holds.
RunDetach(a, W) ==
    LET W1 == [W EXCEPT !.log = Append(@, <<"detach", a.id>>),
                        !.subs = IF a.kind = "listener"
                                 THEN EventListenerHandle_discard(a.id, @)
                                 ELSE @ \ {a.id}]
    IN  IF a.kind = "vec" THEN DiscardEach(W1.doms, W1) ELSE W1

RunDetachSeq(acts, W) ==
    IF acts = <<>> THEN W ELSE RunDetachSeq(Tail(acts), RunDetach(Head(acts), W))

\* trigger_after_insert: drains and runs every on_attach action in
\* registration order, each given the still-open on_detach sequence of n.
trigger_after_insert(n, W) ==
    RunAttachSeq(W.cb[n].after_insert, n, [W EXCEPT !.cb[n].after_insert = <<>>])

AttachEach(ns, W) ==
    IF ns = <<>> THEN W ELSE AttachEach(Tail(ns), trigger_after_insert(Head(ns), W))

\* One on_attach action, run with the Callbacks of n.
RunAttach(a, n, W) ==
    LET W1 == [W EXCEPT !.log = Append(@, <<"attach", a.id>>)]
    IN  CASE a.kind \in {"scroll", "focus_signal"} ->
                [W1 EXCEPT !.cb[n] = after_remove(@, Action("sub", a.id)),
                           !.subs = @ \cup {a.id}]
          [] a.kind = "focused" ->
                [W1 EXCEPT !.log = Append(@, <<"set_focused", a.id>>)]
          [] a.kind = "vec" ->
                IF W1.is_inserted THEN W1
                ELSE AttachEach(W1.doms, [W1 EXCEPT !.is_inserted = TRUE])
          [] OTHER -> W1

RunAttachSeq(acts, n, W) ==
    IF acts = <<>> THEN W
    ELSE RunAttachSeq(Tail(acts), n, RunAttach(Head(acts), n, W))

\* ------------------------------------------------------------ DomBuilder
TotalRegs == SeqSum([i \in 1..4 |-> Len(reg[<<"p", "a", "b", "s">>[i]])])

NewId(n) == <<n, Len(reg[n]) + 1>>

CanRegister(n) == phase[n] = "building" /\ TotalRegs < MaxRegs

KindOf(id) == IF id[2] \in DOMAIN reg[id[1]] THEN reg[id[1]][id[2]] ELSE "none"

\* for_each(signal, f) / spawn_future(future): a running task whose handle
\* does not cancel it when dropped, only when discarded.
Registered(n, kind, c, live) ==
    /\ CanRegister(n)
    /\ reg' = [reg EXCEPT ![n] = Append(@, kind)]
    /\ cb' = [cb EXCEPT ![n] = c]
    /\ subs' = subs \cup live
    /\ UNCHANGED <<phase, has_children, tree, log, effect, doms, is_inserted, srcVec>>
    /\ UNCHANGED <<optVars, clsVars, focVars, winVars, scrVars, classVars>>

\* A builder method that may also call dom_operations on the element at once:
\* r is the Callbacks it leaves, the tasks it starts and the calls it makes.
RegisteredWith(n, kind, r) ==
    /\ CanRegister(n)
    /\ reg' = [reg EXCEPT ![n] = Append(@, kind)]
    /\ cb' = [cb EXCEPT ![n] = r.callbacks]
    /\ subs' = subs \cup r.live
    /\ effect' = IF r.calls = <<>> THEN effect ELSE r.calls[Len(r.calls)]
    /\ UNCHANGED <<phase, has_children, tree, log, doms, is_inserted, srcVec>>
    /\ UNCHANGED <<optVars, clsVars, focVars, winVars, scrVars, classVars>>

\* DomBuilder::new
DomBuilderNew == [callbacks |-> CallbacksNew, has_children |-> FALSE]

after_inserted(c, id) == after_insert(c, Action("fn", id))

AfterInserted(n) ==
    /\ n \in Nodes
    /\ Registered(n, "after_inserted", after_inserted(cb[n], NewId(n)), {})

after_removed(c, id) == after_remove(c, Action("fn", id))

AfterRemoved(n) ==
    /\ n \in Nodes
    /\ Registered(n, "after_removed", after_removed(cb[n], NewId(n)), {})

\* set_option_str, and set_class_signal alike: the subscription starts here,
\* its handle goes to on_detach
set_option_str(c, id) == after_remove(c, Action("sub", id))

\* attribute_signal / style_signal ... on a DomBuilder, style_signal on a
\* StylesheetBuilder
SetOptionStr(n) ==
    /\ n \in Builders
    /\ Registered(n, "signal", set_option_str(cb[n], NewId(n)), {NewId(n)})

future(c, id) == after_remove(c, Action("future", id))

Future(n) ==
    /\ n = Parent
    /\ Registered(n, "future", future(cb[n], NewId(n)), {NewId(n)})

\* _event: the listener is added at once, its removal goes to on_detach
event(c, id) == after_remove(c, Action("listener", id))

Event(n) ==
    /\ n = Parent
    /\ Registered(n, "event", event(cb[n], NewId(n)), {NewId(n)})

\* property: dom_operations::set_property is called in the builder method
property(c, id) == [callbacks |-> c, live |-> {}, calls |-> <<id>>]

Property(n) ==
    /\ n = Parent
    /\ RegisteredWith(n, "property", property(cb[n], NewId(n)))

\* set_property_signal with a set_property call of its own
set_property_signal_eager(c, id) ==
    [callbacks |-> after_remove(c, Action("sub", id)), live |-> {id}, calls |-> <<id>>]

\* set_property_signal: set_property is called in the for_each callback only
set_property_signal(c, id) ==
    [callbacks |-> after_remove(c, Action("sub", id)), live |-> {id}, calls |-> <<>>]

SetPropertySignal(n) ==
    /\ n = Parent
    /\ RegisteredWith(n, "property_signal", set_property_signal(cb[n], NewId(n)))

\* text_signal: a text node created empty, a Dom with the subscription as
\* its one detach action; set_text is called in the for_each callback only
text_signal(id) ==
    [callbacks |-> after_remove(CallbacksNew, Action("sub", id)), live |-> {id},
     calls |-> <<>>]

TextSignal(n) ==
    /\ n = "a"
    /\ phase[n] = "building"
    /\ reg[n] = <<>>
    /\ TotalRegs < MaxRegs
    /\ LET r == text_signal(NewId(n))
       IN  /\ reg' = [reg EXCEPT ![n] = Append(@, "text_signal")]
           /\ cb' = [cb EXCEPT ![n] = r.callbacks]
           /\ subs' = subs \cup r.live
           /\ effect' = IF r.calls = <<>> THEN effect ELSE r.calls[Len(r.calls)]
    /\ phase' = [phase EXCEPT ![n] = "dom"]
    /\ UNCHANGED <<has_children, tree, log, doms, is_inserted, srcVec>>
    /\ UNCHANGED <<optVars, clsVars, focVars, winVars, scrVars, classVars>>

\* global_event: _event with the window as the target
global_event(c, id) == after_remove(c, Action("listener", id))

GlobalEvent(n) ==
    /\ n \in {Parent, "a"}
    /\ Registered(n, "global_event", global_event(cb[n], NewId(n)), {NewId(n)})

\* set_scroll_signal: nothing is subscribed before the attach phase
set_scroll_signal(c, id) == after_insert(c, Action("scroll", id))

SetScrollSignal(n) ==
    /\ n = Parent
    /\ Registered(n, "scroll", set_scroll_signal(cb[n], NewId(n)), {})

\* focused(value): set_focused is called by the attach action itself
focused(c, id) == after_insert(c, Action("focused", id))

Focused(n) ==
    /\ n = Parent
    /\ Registered(n, "focused", focused(cb[n], NewId(n)), {})

\* set_focused_signal with the subscription started at registration
set_focused_signal_eager(c, id) ==
    [callbacks |-> after_remove(c, Action("sub", id)), live |-> {id}]

\* set_focused_signal: the for_each is inside the after_insert closure
set_focused_signal(c, id) ==
    [callbacks |-> after_insert(c, Action("focus_signal", id)), live |-> {}]

SetFocusedSignal(n) ==
    /\ n = Parent
    /\ Registered(n, "focus_signal", set_focused_signal(cb[n], NewId(n)).callbacks,
                  set_focused_signal(cb[n], NewId(n)).live)

\* into_dom: the Dom takes the builder's element and callbacks
into_dom_fresh(c) == CallbacksNew

into_dom(c) == c

IntoDom(n) ==
    /\ n \in Nodes
    /\ phase[n] = "building"
    /\ phase' = [phase EXCEPT ![n] = "dom"]
    /\ cb' = [cb EXCEPT ![n] = into_dom(@)]
    /\ UNCHANGED <<reg, has_children, tree, log, subs, effect, doms, is_inserted, srcVec>>
    /\ UNCHANGED <<optVars, clsVars, focVars, winVars, scrVars, classVars>>

\* Dom::with_state: the state goes, as a ValueDiscard, to the end of the
\* on_detach sequence of the Dom that the initializer returned
with_state(c, id) == after_remove(c, Action("state", id))

WithState(n) ==
    /\ n = Parent
    /\ phase[n] = "dom"
    /\ "state" \notin Range(reg[n])
    /\ TotalRegs < MaxRegs
    /\ reg' = [reg EXCEPT ![n] = Append(@, "state")]
    /\ cb' = [cb EXCEPT ![n] = with_state(@, NewId(n))]
    /\ UNCHANGED <<phase, has_children, tree, log, subs, effect, doms, is_inserted,
                   srcVec>>
    /\ UNCHANGED <<optVars, clsVars, focVars, winVars, scrVars, classVars>>

\* ------------------------------------------------------------- children
\* Sequences without repetition over a set of at most two Dom values.
Perms(S) == {<<>>} \cup {<<x>> : x \in S}
            \cup {<<x, y>> : <<x, y>> \in {z \in S \X S : z[1] # z[2]}}

FreshDoms == {k \in Kids : phase[k] = "dom"}

RECURSIVE insert_children_iter(_, _, _)
\* operations::insert_children_iter: every child is appended to the element
\* and its two release phases are handed to the parent's Callbacks, so that
\* they run in lockstep with the parent's.
insert_children_iter(n, cs, W) ==
    IF cs = <<>> THEN W
    ELSE LET c == Head(cs)
             W1 == [W EXCEPT
                      !.cb[n].after_insert = @ \o W.cb[c].after_insert,
                      !.cb[n].after_remove = @ \o W.cb[c].after_remove,
                      !.cb[c] = CallbacksNew,
                      !.tree[n] = Append(@, c),
                      !.log = Append(@, <<"append_child", <<c, 0>>>>)]
         IN  insert_children_iter(n, Tail(cs), W1)

\* children with the assertion placed after the insertion
children_late_assert(hc, n, cs, W) ==
    [panic |-> hc, has_children |-> TRUE, W |-> insert_children_iter(n, cs, W)]

\* DomBuilder::children
children(hc, n, cs, W) ==
    IF hc # FALSE
    THEN [panic |-> TRUE, has_children |-> hc, W |-> W]
    ELSE [panic |-> FALSE, has_children |-> TRUE,
          W |-> insert_children_iter(n, cs, W)]

\* operations::insert_children_signal_vec: one attach action (attach the
\* children already held once the parent is in the tree) and the handle of
\* the for_each_vec subscription as a detach action.
insert_children_signal_vec(n, id, W) ==
    [W EXCEPT !.cb[n] = after_remove(after_insert(@, Action("vec", id)),
                                     Action("vec", id)),
              !.subs = @ \cup {id}]

\* DomBuilder::children_signal_vec
children_signal_vec(hc, n, id, W) ==
    IF hc # FALSE
    THEN [panic |-> TRUE, has_children |-> hc, W |-> W]
    ELSE [panic |-> FALSE, has_children |-> TRUE,
          W |-> insert_children_signal_vec(n, id, W)]

\* The end of a children call: a failed assert_eq! ends the call abnormally;
\* a build that unwinds drops the builder, a build that aborts does not.
ChildrenCall(n, r, kind, moved, unwind) ==
    /\ r.panic \/ TotalRegs < MaxRegs
    /\ has_children' = [has_children EXCEPT ![n] = r.has_children]
    /\ Commit(IF r.panic /\ unwind THEN DiscardCallbacks(n, r.W) ELSE r.W)
    /\ reg' = IF r.panic THEN reg ELSE [reg EXCEPT ![n] = Append(@, kind)]
    /\ phase' = [k \in Builders |->
                    IF k = n /\ r.panic THEN "panicked"
                    ELSE IF k \in moved /\ ~r.panic THEN "moved"
                    ELSE phase[k]]
    /\ UNCHANGED <<effect, srcVec, optVars, clsVars, focVars, winVars, scrVars, classVars>>

Children(n) ==
    /\ n = Parent
    /\ phase[n] = "building"
    /\ \E cs \in Perms(FreshDoms), unwind \in BOOLEAN :
          ChildrenCall(n, children(has_children[n], n, cs, World), "children",
                       Range(cs), unwind)

ChildrenSignalVec(n) ==
    /\ n = Parent
    /\ phase[n] = "building"
    /\ \E unwind \in BOOLEAN :
          ChildrenCall(n, children_signal_vec(has_children[n], n, NewId(n), World),
                       "children_signal_vec", {}, unwind)

\* --------------------------------------- the reactive children binding
Change(op, index, new_index, values) ==
    [op |-> op, index |-> index, new_index |-> new_index, values |-> values]

\* The reactive sequence itself after a change.
SrcApply(ch, s) ==
    CASE ch.op = "InsertAt" -> InsertAtSeq(s, ch.index, ch.values[1])
      [] ch.op = "RemoveAt" -> RemoveAtSeq(s, ch.index)
      [] ch.op = "UpdateAt" -> SetAtSeq(s, ch.index, ch.values[1])
      [] ch.op = "Move" -> MoveSeq(s, ch.index, ch.new_index)
      [] ch.op = "Clear" -> <<>>
      [] ch.op = "Replace" -> ch.values

\* A child that enters the element: its attach phase runs at once when the
\* parent is in the tree, and waits for the parent's attach phase otherwise.
ChildEnters(c, W) == IF W.is_inserted THEN trigger_after_insert(c, W) ELSE W

RECURSIVE ChildrenEnter(_, _)
RECURSIVE ChildrenLeave(_, _)
ChildrenEnter(cs, W) ==
    IF cs = <<>> THEN W ELSE ChildrenEnter(Tail(cs), ChildEnters(Head(cs), W))

\* a child that leaves with its detach phase left unrun
ChildLeavesUnrun(c, W) == W

\* A child that leaves the element: its detach phase runs at once.
ChildLeaves(c, W) == DiscardCallbacks(c, W)

ChildrenLeave(cs, W) ==
    IF cs = <<>> THEN W ELSE ChildrenLeave(Tail(cs), ChildLeaves(Head(cs), W))

\* The for_each_vec callback of insert_children_signal_vec: one change of the
\* reactive sequence applied to the element p and to the Vec<Dom> it mirrors.
apply_change(p, ch, W) ==
    CASE ch.op = "InsertAt" ->
            ChildEnters(ch.values[1],
                [W EXCEPT !.tree[p] = InsertAtSeq(@, ch.index, ch.values[1]),
                          !.doms = InsertAtSeq(@, ch.index, ch.values[1])])
      [] ch.op = "RemoveAt" ->
            ChildLeaves(W.doms[ch.index + 1],
                [W EXCEPT !.tree[p] = RemoveAtSeq(@, ch.index),
                          !.doms = RemoveAtSeq(@, ch.index)])
      [] ch.op = "UpdateAt" ->
            ChildEnters(ch.values[1],
                ChildLeaves(W.doms[ch.index + 1],
                    [W EXCEPT !.tree[p] = SetAtSeq(@, ch.index, ch.values[1]),
                              !.doms = SetAtSeq(@, ch.index, ch.values[1])]))
      [] ch.op = "Move" ->
            [W EXCEPT !.tree[p] = MoveSeq(@, ch.index, ch.new_index),
                      !.doms = MoveSeq(@, ch.index, ch.new_index)]
      [] ch.op = "Clear" ->
            ChildrenLeave(W.doms, [W EXCEPT !.tree[p] = <<>>, !.doms = <<>>])
      [] ch.op = "Replace" ->
            ChildrenEnter(ch.values,
                ChildrenLeave(W.doms,
                    [W EXCEPT !.tree[p] = ch.values, !.doms = ch.values]))

\* The subscription of the children binding, when it is still live.
VecLive == \E id \in subs : KindOf(id) = "children_signal_vec"

VecChange(ch) ==
    /\ VecLive
    /\ srcVec' = SrcApply(ch, srcVec)
    /\ Commit(apply_change(Parent, ch, World))
    /\ phase' = [k \in Builders |->
                    IF k \in Range(srcVec') THEN "in_vec"
                    ELSE IF k \in Range(srcVec) THEN "removed"
                    ELSE phase[k]]
    /\ UNCHANGED <<reg, has_children, effect, optVars, clsVars, focVars, winVars, scrVars, classVars>>

VecInsertAt ==
    \E i \in 0..Len(srcVec), c \in FreshDoms :
        VecChange(Change("InsertAt", i, 0, <<c>>))

VecRemoveAt ==
    \E i \in 0..(Len(srcVec) - 1) : VecChange(Change("RemoveAt", i, 0, <<>>))

VecUpdateAt ==
    \E i \in 0..(Len(srcVec) - 1), c \in FreshDoms :
        VecChange(Change("UpdateAt", i, 0, <<c>>))

VecMove ==
    \E i \in 0..(Len(srcVec) - 1), j \in 0..(Len(srcVec) - 1) :
        i # j /\ VecChange(Change("Move", i, j, <<>>))

VecClear == VecChange(Change("Clear", 0, 0, <<>>))

VecReplace == \E cs \in Perms(FreshDoms) : VecChange(Change("Replace", 0, 0, cs))

\* ------------------------------------------------ append_dom, DomHandle
\* append_dom without the leak() call
append_dom_no_leak(n, W) ==
    trigger_after_insert(n, [W EXCEPT !.tree[Body] = Append(@, n),
                                      !.log = Append(@, <<"append_child", <<n, 0>>>>)])

\* append_dom with trigger_after_insert called before append_child
append_dom_trigger_first(n, W) ==
    LET W1 == trigger_after_insert(n, W)
        W2 == [W1 EXCEPT !.tree[Body] = Append(@, n),
                         !.log = Append(@, <<"append_child", <<n, 0>>>>)]
    IN  [W2 EXCEPT !.cb[n] = leak(@)]

\* append_dom: append_child, trigger_after_insert, leak
append_dom(n, W) ==
    LET W1 == [W EXCEPT !.tree[Body] = Append(@, n),
                        !.log = Append(@, <<"append_child", <<n, 0>>>>)]
        W2 == trigger_after_insert(n, W1)
    IN  [W2 EXCEPT !.cb[n] = leak(@)]

AppendDom(n) ==
    /\ n = Parent
    /\ phase[n] = "dom"
    /\ Commit(append_dom(n, World))
    /\ phase' = [phase EXCEPT ![n] = "attached"]
    /\ UNCHANGED <<reg, has_children, effect, srcVec, optVars, clsVars, focVars, winVars, scrVars, classVars>>

RemoveChild(s, n) == SelectSeq(s, LAMBDA x : x # n)

\* DomHandle::discard: remove_child(..).unwrap(), then callbacks.discard()
handle_discard(n, W) ==
    DiscardCallbacks(n, [W EXCEPT !.tree[Body] = RemoveChild(@, n),
                                  !.log = Append(@, <<"remove_child", <<n, 0>>>>)])

\* discard with the result of remove_child ignored
discard_no_unwrap(n, W) == [panic |-> FALSE, W |-> handle_discard(n, W)]

\* DomHandle::discard with its unwrap(): remove_child fails when the node is
\* not a child of the recorded parent, and the call ends there.
discard(n, W) ==
    IF n \in Range(W.tree[Body])
    THEN [panic |-> FALSE, W |-> handle_discard(n, W)]
    ELSE [panic |-> TRUE, W |-> W]

\* A failed unwrap() ends the call abnormally; a build that unwinds drops the
\* handle, and with it the Dom and its Callbacks.
Discard(n) ==
    /\ n = Parent
    /\ phase[n] = "attached"
    /\ \E unwind \in BOOLEAN :
          LET r == discard(n, World)
          IN  /\ Commit(IF r.panic /\ unwind THEN DiscardCallbacks(n, r.W) ELSE r.W)
              /\ phase' = [phase EXCEPT ![n] = IF r.panic THEN "panicked"
                                                ELSE "detached"]
    /\ UNCHANGED <<reg, has_children, effect, srcVec, optVars, clsVars, focVars, winVars, scrVars, classVars>>

\* Other code takes the node out of its parent.
ExternalRemove(n) ==
    /\ n = Parent
    /\ phase[n] = "attached"
    /\ n \in Range(tree[Body])
    /\ tree' = [tree EXCEPT ![Body] = RemoveChild(@, n)]
    /\ UNCHANGED <<phase, reg, cb, has_children, log, subs, effect, doms,
                   is_inserted, srcVec>>
    /\ UNCHANGED <<optVars, clsVars, focVars, winVars, scrVars, classVars>>

\* A DomHandle that goes out of scope: DomHandle has no Drop of its own, its
\* Dom is dropped and with it the Callbacks.
DropHandle(n) ==
    /\ n = Parent
    /\ phase[n] = "attached"
    /\ Commit(DiscardCallbacks(n, World))
    /\ phase' = [phase EXCEPT ![n] = "handle_dropped"]
    /\ UNCHANGED <<reg, has_children, effect, srcVec, optVars, clsVars, focVars, winVars, scrVars, classVars>>

\* A Dom that is dropped before it was ever given to append_dom.
DropDom(n) ==
    /\ n = Parent
    /\ phase[n] = "dom"
    /\ Commit(DiscardCallbacks(n, World))
    /\ phase' = [phase EXCEPT ![n] = "dropped"]
    /\ UNCHANGED <<reg, has_children, effect, srcVec, optVars, clsVars, focVars, winVars, scrVars, classVars>>

\* done without the leak() call
stylesheet_done_no_leak(n, W) == DiscardCallbacks(n, trigger_after_insert(n, W))

\* StylesheetBuilder::done: trigger_after_insert, leak, and self is dropped
stylesheet_done(n, W) ==
    LET W1 == trigger_after_insert(n, W)
    IN  DiscardCallbacks(n, [W1 EXCEPT !.cb[n] = leak(@)])

Done(n) ==
    /\ n = Sheet
    /\ phase[n] = "building"
    /\ Commit(stylesheet_done(n, World))
    /\ phase' = [phase EXCEPT ![n] = "done"]
    /\ UNCHANGED <<reg, has_children, effect, srcVec, optVars, clsVars, focVars, winVars, scrVars, classVars>>

\* ------------------------------------------------- the bindings at work
\* A binding whose subscription, task or listener is live acts on the tree.
Acts(id, kinds) ==
    /\ id \in subs
    /\ KindOf(id) \in kinds
    /\ effect' = id
    /\ UNCHANGED <<phase, reg, cb, has_children, tree, log, subs, doms,
                   is_inserted, srcVec>>
    /\ UNCHANGED <<optVars, clsVars, focVars, winVars, scrVars, classVars>>

\* the for_each callback of a signal binding is called with a new value
SignalProduces(id) ==
    Acts(id, {"signal", "scroll", "focus_signal", "property_signal", "text_signal"})

\* a spawned future is polled and acts
FuturePolled(id) == Acts(id, {"future"})

\* an event reaches an added listener
EventFires(id) == Acts(id, {"event", "global_event"})

\* -------------------------------------------------------- specification
InitLife ==
    /\ phase = [n \in Builders |-> "building"]
    /\ reg = [n \in Builders |-> <<>>]
    /\ cb = [n \in Builders |-> DomBuilderNew.callbacks]
    /\ has_children = [n \in Builders |-> DomBuilderNew.has_children]
    /\ tree = [n \in {Body, Parent} |-> <<>>]
    /\ log = <<>>
    /\ subs = {}
    /\ effect = NoId
    /\ doms = <<>>
    /\ is_inserted = FALSE
    /\ srcVec = <<>>

InitOpt ==
    /\ optSet = FALSE
    /\ optFed = <<>>
    /\ optCalls = <<>>

InitCls ==
    /\ clsSet = FALSE
    /\ clsFed = <<>>
    /\ clsCalls = <<>>

InitFoc ==
    /\ focFed = <<>>
    /\ focCalls = <<>>

\* is_window_loaded(): IsWindowLoaded::Initial, in a document still loading
InitWin ==
    /\ winState = "Initial"
    /\ readyState = "loading"
    /\ loadFired = FALSE
    /\ winSent = FALSE
    /\ winListeners = 0
    /\ winAdds = 0
    /\ winRemoves = 0
    /\ winYield = <<>>
    /\ winSender = FALSE
    /\ winReceiver = FALSE
    /\ winPanic = "none"

\* The element starts unscrolled.
InitScr ==
    /\ scrFed = <<>>
    /\ scrCalls = <<>>
    /\ scrPos = "0.0"

\* The threads that call ClassBuilder::new.
Threads == {"t1", "t2"}

\* ATOMIC_USIZE_INIT, and no call under way
InitClass ==
    /\ CLASS_ID = 0
    /\ classPc = [t \in Threads |-> [pc |-> "idle", id |-> 0]]
    /\ classNames = <<>>

Init == InitLife /\ InitOpt /\ InitCls /\ InitFoc /\ InitWin /\ InitScr /\ InitClass

\* The tree: a parent built by a DomBuilder, its children, its handle.
Next ==
    \/ \E n \in Nodes : AfterInserted(n)
    \/ \E n \in Nodes : AfterRemoved(n)
    \/ \E n \in Nodes : SetOptionStr(n)
    \/ \E n \in Nodes : Future(n)
    \/ \E n \in Nodes : Event(n)
    \/ \E n \in Nodes : SetScrollSignal(n)
    \/ \E n \in Nodes : Children(n)
    \/ \E n \in Nodes : ChildrenSignalVec(n)
    \/ \E n \in Nodes : IntoDom(n)
    \/ \E n \in Nodes : AppendDom(n)
    \/ \E n \in Nodes : Discard(n)
    \/ \E n \in Nodes : DropHandle(n)
    \/ \E n \in Nodes : DropDom(n)
    \/ VecInsertAt
    \/ VecRemoveAt
    \/ VecUpdateAt
    \/ VecMove
    \/ VecClear
    \/ VecReplace
    \/ \E id \in AllIds : SignalProduces(id)
    \/ \E id \in AllIds : FuturePolled(id)
    \/ \E id \in AllIds : EventFires(id)

Spec == Init /\ [][Next]_vars

\* The two users of leak(): a node given to append_dom and a StylesheetBuilder.
LeakUsers == {Parent, Sheet}

NextLeak ==
    \/ \E n \in LeakUsers : AfterInserted(n)
    \/ \E n \in LeakUsers : AfterRemoved(n)
    \/ \E n \in LeakUsers : SetOptionStr(n)
    \/ \E n \in LeakUsers : Future(n)
    \/ \E n \in LeakUsers : Event(n)
    \/ \E n \in LeakUsers : SetScrollSignal(n)
    \/ \E n \in LeakUsers : IntoDom(n)
    \/ \E n \in LeakUsers : AppendDom(n)
    \/ \E n \in LeakUsers : Discard(n)
    \/ \E n \in LeakUsers : ExternalRemove(n)
    \/ \E n \in LeakUsers : DropHandle(n)
    \/ \E n \in LeakUsers : Done(n)
    \/ \E id \in AllIds : SignalProduces(id)
    \/ \E id \in AllIds : FuturePolled(id)
    \/ \E id \in AllIds : EventFires(id)

SpecLeak == Init /\ [][NextLeak]_vars

\* The bindings that wait for the attach phase, on one node.
NextScroll ==
    \/ SetScrollSignal(Parent)
    \/ Focused(Parent)
    \/ SetFocusedSignal(Parent)
    \/ IntoDom(Parent)
    \/ AppendDom(Parent)
    \/ Discard(Parent)
    \/ DropHandle(Parent)
    \/ DropDom(Parent)
    \/ \E id \in AllIds : SignalProduces(id)

SpecScroll == Init /\ [][NextScroll]_vars

\* Event listeners: a node with listeners on its element and on the window,
\* and another builder with listeners on the window.
NextEvent ==
    \/ Event(Parent)
    \/ \E n \in {Parent, "a"} : GlobalEvent(n)
    \/ IntoDom(Parent)
    \/ AppendDom(Parent)
    \/ Discard(Parent)
    \/ DropHandle(Parent)
    \/ DropDom(Parent)
    \/ \E id \in AllIds : EventFires(id)

SpecEvent == Init /\ [][NextEvent]_vars

\* A node built by Dom::with_state, its initializer using a DomBuilder.
NextState ==
    \/ AfterRemoved(Parent)
    \/ SetOptionStr(Parent)
    \/ IntoDom(Parent)
    \/ WithState(Parent)
    \/ AppendDom(Parent)
    \/ Discard(Parent)
    \/ DropHandle(Parent)
    \/ DropDom(Parent)
    \/ \E id \in AllIds : SignalProduces(id)

SpecState == Init /\ [][NextState]_vars

\* The bindings that start at registration, next to a plain property call.
NextSignal ==
    \/ SetOptionStr(Parent)
    \/ SetPropertySignal(Parent)
    \/ Property(Parent)
    \/ TextSignal("a")
    \/ IntoDom(Parent)
    \/ AppendDom(Parent)
    \/ DropDom(Parent)
    \/ \E id \in AllIds : SignalProduces(id)

SpecSignal == Init /\ [][NextSignal]_vars

\* ----------------------------------------- set_option_str, one binding
None == "None"
OptionStr == {None, "a", "b"}

\* the callback with the clear of a value that was never set let through
option_str_value_always(is_set, value) ==
    [is_set |-> value # None, calls |-> <<value>>]

\* The for_each callback of set_option_str: the new is_set and the calls of
\* f(&element, value) it makes (f sets on Some, removes on None).
option_str_value(is_set, value) ==
    IF value # None
    THEN [is_set |-> TRUE, calls |-> <<value>>]
    ELSE IF is_set
         THEN [is_set |-> FALSE, calls |-> <<value>>]
         ELSE [is_set |-> is_set, calls |-> <<>>]

OptProduces(value) ==
    /\ Len(optFed) < MaxLen
    /\ optFed' = Append(optFed, value)
    /\ optSet' = option_str_value(optSet, value).is_set
    /\ optCalls' = optCalls \o option_str_value(optSet, value).calls
    /\ UNCHANGED <<lifeVars, clsVars, focVars, winVars, scrVars, classVars>>

NextOpt == \E value \in OptionStr : OptProduces(value)

SpecOpt == Init /\ [][NextOpt]_vars

\* --------------------------------------- set_class_signal, one binding
\* the callback without its is_set test
class_value_level(is_set, value) ==
    [is_set |-> value,
     calls |-> IF value THEN <<"add_class">> ELSE <<"remove_class">>]

\* The for_each callback of set_class_signal.
class_value(is_set, value) ==
    IF value
    THEN IF ~is_set
         THEN [is_set |-> TRUE, calls |-> <<"add_class">>]
         ELSE [is_set |-> is_set, calls |-> <<>>]
    ELSE IF is_set
         THEN [is_set |-> FALSE, calls |-> <<"remove_class">>]
         ELSE [is_set |-> is_set, calls |-> <<>>]

ClassProduces(value) ==
    /\ Len(clsFed) < MaxLen
    /\ clsFed' = Append(clsFed, value)
    /\ clsSet' = class_value(clsSet, value).is_set
    /\ clsCalls' = clsCalls \o class_value(clsSet, value).calls
    /\ UNCHANGED <<lifeVars, optVars, focVars, winVars, scrVars, classVars>>

NextCls == \E value \in BOOLEAN : ClassProduces(value)

SpecCls == Init /\ [][NextCls]_vars

\* ------------------------------------- set_focused_signal, one binding
\* The for_each callback of set_focused_signal, once the attach phase has
\* started it: the set_focused calls it makes for one value.
focus_value(value) == <<value>>

FocusProduces(value) ==
    /\ Len(focFed) < MaxLen
    /\ focFed' = Append(focFed, value)
    /\ focCalls' = focCalls \o focus_value(value)
    /\ UNCHANGED <<lifeVars, optVars, clsVars, winVars, scrVars, classVars>>

NextFocus == \E value \in BOOLEAN : FocusProduces(value)

SpecFocus == Init /\ [][NextFocus]_vars

\* ------------------------------------- set_scroll_signal, one binding
OptionF64 == {None, "0.0", "7.5"}

\* the callback with a test against the position last set
scroll_value_edge(pos, value) ==
    IF value # None /\ value # pos
    THEN [calls |-> <<value>>, pos |-> value]
    ELSE [calls |-> <<>>, pos |-> pos]

\* The for_each callback of set_scroll_signal, once the attach phase has
\* started it: the calls of f(&element, value) it makes (f is
\* set_scroll_left or set_scroll_top) and the scroll position they leave.
scroll_value(pos, value) ==
    IF value # None
    THEN [calls |-> <<value>>, pos |-> value]
    ELSE [calls |-> <<>>, pos |-> pos]

ScrollProduces(value) ==
    /\ Len(scrFed) < MaxLen
    /\ scrFed' = Append(scrFed, value)
    /\ scrCalls' = scrCalls \o scroll_value(scrPos, value).calls
    /\ scrPos' = scroll_value(scrPos, value).pos
    /\ UNCHANGED <<lifeVars, optVars, clsVars, focVars, winVars, classVars>>

NextScrollValue == \E value \in OptionF64 : ScrollProduces(value)

SpecScrollValue == Init /\ [][NextScrollValue]_vars

\* --------------------------------------------------- is_window_loaded
\* The load listeners of the signal on the window, with the calls counted.
\* and the two ends of the oneshot channel: the sender in the callback of
\* the listener, the receiver in the Pending state.
LoadListeners ==
    [listeners |-> winListeners, adds |-> winAdds, removes |-> winRemoves,
     sender |-> winSender, receiver |-> winReceiver]

\* IsWindowLoadedEvent::new: addEventListener("load", callback, true), the
\* callback owning the sender
IsWindowLoadedEvent_new(L) ==
    [L EXCEPT !.listeners = @ + 1, !.adds = @ + 1, !.sender = TRUE]

\* a drop that leaves the listener on the window
IsWindowLoadedEvent_drop_keep(L) == [L EXCEPT !.removes = @ + 1, !.sender = FALSE]

\* an IsWindowLoadedEvent without a Drop
IsWindowLoadedEvent_drop_none(L) == L

\* Drop for IsWindowLoadedEvent: removeEventListener("load", callback, true)
\* and callback.drop(), which drops the sender if the callback still has it
IsWindowLoadedEvent_drop(L) ==
    [L EXCEPT !.listeners = @ - 1, !.removes = @ + 1, !.sender = FALSE]

\* oneshot::channel(), the receiver kept in Pending
NewPending(L) == [IsWindowLoadedEvent_new(L) EXCEPT !.receiver = TRUE]

\* A Pending that is overwritten or dropped: its receiver and its event go.
DropPending(L) == [IsWindowLoadedEvent_drop(L) EXCEPT !.receiver = FALSE]

\* poll_change without the move to Done after Ready(Some(true))
poll_change_no_done(state, is_ready, sent, L) ==
    CASE state = "Initial" ->
            IF is_ready
            THEN [state |-> "Initial", result |-> "true", L |-> L]
            ELSE [state |-> "Pending", result |-> "false", L |-> NewPending(L)]
      [] state = "Pending" ->
            IF sent
            THEN [state |-> "Pending", result |-> "true", L |-> L]
            ELSE [state |-> "Pending", result |-> "NotReady", L |-> L]
      [] state = "Done" -> [state |-> "Done", result |-> "None", L |-> L]

\* poll_change with the receiver taken as ready in every poll
poll_change_early(state, is_ready, sent, L) ==
    CASE state = "Initial" ->
            IF is_ready
            THEN [state |-> "Done", result |-> "true", L |-> L]
            ELSE [state |-> "Pending", result |-> "false", L |-> NewPending(L)]
      [] state = "Pending" ->
            [state |-> "Done", result |-> "true", L |-> DropPending(L)]
      [] state = "Done" -> [state |-> "Done", result |-> "None", L |-> L]

\* IsWindowLoaded::poll_change: the new state, the result (Ready(Some(b)) as
\* "true" / "false", NotReady, Ready(None) as "None"), and the listeners;
\* the event of a Pending that is overwritten by Done is dropped.  A
\* receiver whose sender is gone without having sent gives Err(Canceled),
\* on which the unwrap() fails.
poll_change(state, is_ready, sent, L) ==
    CASE state = "Initial" ->
            IF is_ready
            THEN [state |-> "Done", result |-> "true", L |-> L]
            ELSE [state |-> "Pending", result |-> "false", L |-> NewPending(L)]
      [] state = "Pending" ->
            IF sent
            THEN [state |-> "Done", result |-> "true", L |-> DropPending(L)]
            ELSE IF L.sender
                 THEN [state |-> "Pending", result |-> "NotReady", L |-> L]
                 ELSE [state |-> "Pending", result |-> "Canceled", L |-> L]
      [] state = "Done" -> [state |-> "Done", result |-> "None", L |-> L]

SetListeners(L) ==
    /\ winListeners' = L.listeners
    /\ winAdds' = L.adds
    /\ winRemoves' = L.removes
    /\ winSender' = L.sender
    /\ winReceiver' = L.receiver

\* The consumer polls the signal.
Poll ==
    /\ winState \in {"Initial", "Pending", "Done"}
    /\ Len(winYield) < MaxPolls
    /\ LET r == poll_change(winState, readyState = "complete", winSent, LoadListeners)
       IN  /\ winState' = r.state
           /\ winYield' = Append(winYield, r.result)
           /\ SetListeners(r.L)
           /\ winPanic' = IF r.result = "Canceled" THEN "poll" ELSE winPanic
    /\ UNCHANGED <<readyState, loadFired, winSent>>
    /\ UNCHANGED <<lifeVars, optVars, clsVars, focVars, scrVars, classVars>>

\* The document finishes loading: readyState becomes "complete" ...
DocumentComplete ==
    /\ readyState = "loading"
    /\ readyState' = "complete"
    /\ UNCHANGED <<winState, loadFired, winSent, winListeners, winAdds, winRemoves,
                   winYield, winSender, winReceiver, winPanic>>
    /\ UNCHANGED <<lifeVars, optVars, clsVars, focVars, scrVars, classVars>>

\* The callback of the load listener: sender.send(()).unwrap(), which
\* fails when the receiver is gone; the callback is a Once, its sender goes
\* with the call.
load_callback(sender, receiver, sent) ==
    IF ~sender THEN [sent |-> sent, sender |-> sender, panic |-> "none"]
    ELSE IF receiver
         THEN [sent |-> TRUE, sender |-> FALSE, panic |-> "none"]
         ELSE [sent |-> sent, sender |-> FALSE, panic |-> "send"]

\* ... and the window's load event is dispatched, once: a registered
\* listener runs its callback
LoadEvent ==
    /\ readyState = "complete"
    /\ ~loadFired
    /\ loadFired' = TRUE
    /\ LET r == load_callback(winSender, winReceiver, winSent)
       IN  IF winListeners > 0
           THEN /\ winSent' = r.sent
                /\ winSender' = r.sender
                /\ winPanic' = IF r.panic = "none" THEN winPanic ELSE r.panic
           ELSE UNCHANGED <<winSent, winSender, winPanic>>
    /\ UNCHANGED <<winState, readyState, winListeners, winAdds, winRemoves, winYield,
                   winReceiver>>
    /\ UNCHANGED <<lifeVars, optVars, clsVars, focVars, scrVars, classVars>>

\* The consumer drops the signal; the event of a Pending is dropped with it.
DropSignal ==
    /\ winState \in {"Initial", "Pending", "Done"}
    /\ winState' = "Dropped"
    /\ SetListeners(IF winState = "Pending"
                    THEN DropPending(LoadListeners)
                    ELSE LoadListeners)
    /\ UNCHANGED <<readyState, loadFired, winSent, winYield, winPanic>>
    /\ UNCHANGED <<lifeVars, optVars, clsVars, focVars, scrVars, classVars>>

NextWin ==
    \/ Poll
    \/ DocumentComplete
    \/ LoadEvent
    \/ DropSignal

SpecWin == Init /\ [][NextWin]_vars

\* --------------------------------------------------- ClassBuilder::new
UsizeMod == 2 ^ UsizeBits

\* a fetch_add that stores the value it read
fetch_add_stale(counter) == [old |-> counter, new |-> counter]

\* CLASS_ID.fetch_add(1, Ordering::Relaxed): one atomic step that returns the
\* value before it and wraps around on overflow
fetch_add(counter) == [old |-> counter, new |-> (counter + 1) % UsizeMod]

\* format!("__class_{}__", id)
format_class(id) == <<"__class_", id, "__">>

\* The calls of ClassBuilder::new begun so far.
ClassCalls ==
    Len(classNames) + Cardinality({t \in Threads : classPc[t].pc = "fetched"})

\* A thread enters ClassBuilder::new and takes its id.
ClassFetch(t) ==
    /\ classPc[t].pc = "idle"
    /\ ClassCalls < MaxCalls
    /\ classPc' = [classPc EXCEPT ![t] = [pc |-> "fetched", id |-> fetch_add(CLASS_ID).old]]
    /\ CLASS_ID' = fetch_add(CLASS_ID).new
    /\ UNCHANGED classNames
    /\ UNCHANGED <<lifeVars, optVars, clsVars, focVars, winVars, scrVars>>

\* The thread formats the class name and returns the builder.
ClassNew(t) ==
    /\ classPc[t].pc = "fetched"
    /\ classNames' = Append(classNames, format_class(classPc[t].id))
    /\ classPc' = [classPc EXCEPT ![t] = [pc |-> "idle", id |-> 0]]
    /\ UNCHANGED CLASS_ID
    /\ UNCHANGED <<lifeVars, optVars, clsVars, focVars, winVars, scrVars>>

NextClass ==
    \/ \E t \in Threads : ClassFetch(t)
    \/ \E t \in Threads : ClassNew(t)

SpecClass == Init /\ [][NextClass]_vars

\* ======================================================== the properties
\* The release actions a builder's calls register, by phase.
AttachIds(n) ==
    {<<n, k>> : k \in {k \in DOMAIN reg[n] :
        reg[n][k] \in {"after_inserted", "scroll", "children_signal_vec",
                       "focused", "focus_signal"}}}

DetachIds(n) ==
    {<<n, k>> : k \in {k \in DOMAIN reg[n] :
        reg[n][k] \in {"after_removed", "signal", "future", "event",
                       "global_event", "children_signal_vec",
                       "property_signal", "text_signal", "state"}}}

\* detach actions that an attach action registers
LateDetachIds(n) ==
    {<<n, k>> : k \in {k \in DOMAIN reg[n] : reg[n][k] \in {"scroll", "focus_signal"}}}

CountIn(l, kind, id) == Cardinality({i \in DOMAIN l : l[i] = <<kind, id>>})

\* positions of the log at which a release action of node n ran
Events(l, kind, n) == {i \in DOMAIN l : l[i][1] = kind /\ l[i][2][1] = n}

StaticKids == IF "children" \in Range(reg[Parent]) THEN Range(tree[Parent]) ELSE {}

Attached(n) == phase[n] \in {"attached", "detached", "handle_dropped"}

RECURSIVE Concat(_)
Concat(ss) == IF ss = <<>> THEN <<>> ELSE Head(ss) \o Concat(Tail(ss))

\* C1: a node given to append_dom and then discarded has had every attach
\* action run once, every detach action run once (those registered while
\* building and those registered by attach actions), and every attach action
\* before any detach action.
C1_AttachedThenDiscarded ==
    phase[Parent] = "detached" =>
        /\ \A id \in AttachIds(Parent) : CountIn(log, "attach", id) = 1
        /\ \A id \in DetachIds(Parent) \cup LateDetachIds(Parent) :
              CountIn(log, "detach", id) = 1
        /\ \A i \in Events(log, "attach", Parent), j \in Events(log, "detach", Parent) :
              i < j

\* C2: a node that is built and dropped without append_dom runs each of its
\* detach actions once, at the drop and not before, and none of its attach
\* actions, the release actions taken over from its static children included.
C2_NeverAttached ==
    \A n \in {Parent} \cup StaticKids :
        /\ phase[Parent] \in {"building", "dom"} =>
              Events(log, "attach", n) \cup Events(log, "detach", n) = {}
        /\ phase[Parent] = "dropped" =>
              /\ \A id \in DetachIds(n) : CountIn(log, "detach", id) = 1
              /\ Events(log, "attach", n) = {}
              /\ LateDetachIds(n) \cap subs = {}

C2_Witness ==
    /\ phase[Parent] = "dropped"
    /\ AttachIds(Parent) # {}
    /\ DetachIds(Parent) # {}
    /\ Events(log, "detach", Parent) # {}

\* The release list of n has been triggered and leaked.
Leaked(n) == IF n = Sheet THEN phase[n] = "done" ELSE Attached(n)

\* C3: once the release list of a node (append_dom) or of a stylesheet
\* builder (done) has been triggered and leaked, no step runs one of its
\* detach actions, the leaking step included.
C3_LeakedNeverDetaches ==
    [][\A n \in LeakUsers :
          Leaked(n)' => Events(log, "detach", n)' = Events(log, "detach", n)]_vars

C3_Witness ==
    /\ phase[Parent] = "detached"
    /\ DetachIds(Parent) # {}
    /\ phase[Sheet] = "done"
    /\ DetachIds(Sheet) # {}

\* The calls of f that the values fed call for, value by value.
OptExpected(fed) ==
    Concat([i \in DOMAIN fed |->
              IF fed[i] # None THEN <<fed[i]>>
              ELSE IF i > 1 /\ fed[i - 1] # None THEN <<None>>
              ELSE <<>>])

\* C4: every Some(v) fed to a set_option_str binding gives one set(v), a None
\* gives one clear exactly when the value before it was a Some, and nothing
\* otherwise; so no clear comes before the first set and no two clears are
\* next to each other.
C4_OptionStrCalls ==
    /\ optCalls = OptExpected(optFed)
    /\ \A i \in DOMAIN optCalls :
          optCalls[i] = None =>
             /\ i > 1
             /\ optCalls[i - 1] # None

C4_Witness ==
    /\ optFed = <<"a", "a", None, None, "b">>
    /\ optCalls = <<"a", "a", None, "b">>

\* The class calls that the changes of the value fed call for.
ClsExpected(fed) ==
    Concat([i \in DOMAIN fed |->
              LET last == IF i = 1 THEN FALSE ELSE fed[i - 1]
              IN  IF fed[i] /\ ~last THEN <<"add_class">>
                  ELSE IF ~fed[i] /\ last THEN <<"remove_class">>
                  ELSE <<>>])

\* C5: add_class is called exactly on a false-to-true change of the value
\* fed to class_signal and remove_class exactly on a true-to-false change,
\* the value before the first one counting as false.
C5_ClassCalls == clsCalls = ClsExpected(clsFed)

C5_Witness ==
    /\ clsFed = <<FALSE, FALSE, TRUE, TRUE, FALSE>>
    /\ clsCalls = <<"add_class", "remove_class">>

\* The calls of children and children_signal_vec that went through.
ChildrenCalls(r) ==
    Cardinality({k \in DOMAIN r : r[k] \in {"children", "children_signal_vec"}})

\* C6: on one builder a second call among children and children_signal_vec
\* ends abnormally before it changes the tree or registers a release action;
\* a call that goes through finds has_children false and sets it.
C6_SecondChildrenRejected ==
    [][\A n \in Nodes :
          /\ ChildrenCalls(reg'[n]) # ChildrenCalls(reg[n]) =>
                /\ ~has_children[n]
                /\ has_children'[n]
                /\ ChildrenCalls(reg'[n]) = 1
          /\ (phase[n] = "building" /\ phase'[n] = "panicked") =>
                /\ has_children[n]
                /\ has_children'[n]
                /\ tree' = tree
                /\ reg' = reg
                /\ subs' \subseteq subs
                /\ \A k \in Builders :
                      /\ Len(cb'[k].after_insert) <= Len(cb[k].after_insert)
                      /\ Len(cb'[k].after_remove) <= Len(cb[k].after_remove)
                      /\ k # n => phase'[k] = phase[k]
                /\ Events(log, "attach", n)' = Events(log, "attach", n)]_vars

C6_Witness ==
    /\ phase[Parent] = "panicked"
    /\ has_children[Parent]
    /\ ChildrenCalls(reg[Parent]) = 1
    /\ FreshDoms # {}

\* The parts of the children binding's contract.
Mirrors == tree[Parent] = srcVec /\ doms = srcVec

LeftOnce ==
    \A k \in Kids : phase[k] = "removed" =>
        \A id \in DetachIds(k) : CountIn(log, "detach", id) = 1

PresentUndetached ==
    \A k \in Range(srcVec) : \A id \in DetachIds(k) : CountIn(log, "detach", id) = 0

\* C7 as written: while the children binding is subscribed the element's
\* children are the reactive sequence, every child that left has had its
\* detach actions run once, and every child present has had its attach
\* actions run once and no detach action.
C7_ChildrenMirror_AsWritten ==
    VecLive =>
        /\ Mirrors
        /\ LeftOnce
        /\ PresentUndetached
        /\ \A k \in Range(srcVec) :
              \A id \in AttachIds(k) : CountIn(log, "attach", id) = 1

\* C7 amended: the same, with the attach actions of a child present run once
\* when the parent has been given to append_dom and not yet run before that.
C7_ChildrenMirror ==
    VecLive =>
        /\ Mirrors
        /\ LeftOnce
        /\ PresentUndetached
        /\ \A k \in Range(srcVec) :
              \A id \in AttachIds(k) :
                 CountIn(log, "attach", id) = IF Attached(Parent) THEN 1 ELSE 0

C7_Witness ==
    /\ VecLive
    /\ Attached(Parent)
    /\ srcVec = <<"b">>
    /\ phase["a"] = "removed"
    /\ DetachIds("a") # {}
    /\ AttachIds("b") # {}

\* C8: the discard of the handle of a parent with reactive children
\* detaches every child present, once and in list order, and no child that
\* had left before.
C8_TeardownCascades ==
    [][(phase[Parent] = "attached" /\ phase'[Parent] = "detached"
          /\ "children_signal_vec" \in Range(reg[Parent])) =>
          /\ \A k \in Range(doms) :
                \A id \in DetachIds(k) : CountIn(log', "detach", id) = 1
          /\ \A i \in DOMAIN doms, j \in DOMAIN doms :
                i < j => \A x \in Events(log', "detach", doms[i]),
                            y \in Events(log', "detach", doms[j]) : x < y
          /\ \A k \in Kids : phase[k] = "removed" =>
                Events(log', "detach", k) = Events(log, "detach", k)]_vars

\* C9: once discard has returned, no binding of the node or of a child in
\* its element touches the tree again.
C9_DiscardCancels ==
    [][phase[Parent] = "detached" =>
          \/ effect' = effect
          \/ effect'[1] \notin {Parent} \cup Range(tree[Parent])]_vars

\* C10: a node given to append_dom stays in the tree, with none of its
\* detach actions run, for as long as its handle is not discarded, also
\* after the handle was dropped.
C10_OnlyDiscardDetaches ==
    \A n \in Nodes :
        phase[n] \in {"attached", "handle_dropped"} =>
            /\ n \in Range(tree[Body])
            /\ Events(log, "detach", n) = {}
            /\ \A k \in StaticKids : Events(log, "detach", k) = {}

C10_Witness ==
    /\ phase[Parent] = "handle_dropped"
    /\ Parent \in Range(tree[Body])
    /\ "after_removed" \in Range(reg[Parent])
    /\ "scroll" \in Range(reg[Parent])

\* C11: a scroll or focus signal of a node is subscribed, and its callback
\* calls set_scroll_left / set_scroll_top / set_focused, only after the attach
\* phase of the node has run in append_dom; focused(value) calls set_focused
\* only in the attach phase; a node never given to append_dom has none of
\* these subscribed and none of these calls made.
C11_ScrollFocusAfterAttach ==
    /\ \A id \in LateDetachIds(Parent) :
          (id \in subs \/ effect = id) =>
             /\ CountIn(log, "attach", id) = 1
             /\ Attached(Parent)
    /\ \A id \in AttachIds(Parent) :
          CountIn(log, "set_focused", id) > 0 =>
             /\ KindOf(id) = "focused"
             /\ CountIn(log, "set_focused", id) = 1
             /\ CountIn(log, "attach", id) = 1
             /\ Attached(Parent)
    /\ ~Attached(Parent) =>
          /\ LateDetachIds(Parent) \cap subs = {}
          /\ effect = NoId
          /\ \A i \in DOMAIN log : log[i][1] # "set_focused"

C11_Witness ==
    /\ phase[Parent] = "attached"
    /\ reg[Parent] = <<"scroll", "focused", "focus_signal">>
    /\ effect = <<Parent, 3>>
    /\ <<Parent, 1>> \in subs
    /\ CountIn(log, "set_focused", <<Parent, 2>>) = 1

\* The place of the children call among the registrations of the parent.
ChildrenAt == CHOOSE k \in DOMAIN reg[Parent] : reg[Parent][k] = "children"

\* Attach actions of one node run in registration order.
AttachInOrder ==
    \A n \in Nodes : \A i \in Events(log, "attach", n), j \in Events(log, "attach", n) :
        i < j => log[i][2][2] < log[j][2][2]

\* Attach actions of a node run after the append_child that inserts it.
AttachAfterInsert ==
    \A n \in {Parent} \cup StaticKids : \A i \in Events(log, "attach", n) :
        \E j \in DOMAIN log : j < i /\ log[j] = <<"append_child", <<n, 0>>>>

\* C12 as written: attach actions run in registration order, after the
\* node is inserted, and every attach action of the parent runs before every
\* attach action of a child passed to children, wherever the parent
\* registered it.
C12_AttachTopDown_AsWritten ==
    /\ AttachInOrder
    /\ AttachAfterInsert
    /\ \A k \in StaticKids :
          \A i \in Events(log, "attach", Parent), j \in Events(log, "attach", k) : i < j

\* C12 amended: attach actions run in registration order and after the node
\* is inserted; the attach actions of the children passed to children run at
\* the place of the children call: after the attach actions the parent
\* registered before the call and before those it registered after it.
C12_AttachTopDown ==
    /\ AttachInOrder
    /\ AttachAfterInsert
    /\ \A k \in StaticKids :
          \A i \in Events(log, "attach", Parent), j \in Events(log, "attach", k) :
             i < j <=> log[i][2][2] < ChildrenAt

C12_Witness ==
    /\ phase[Parent] = "attached"
    /\ reg[Parent] = <<"children", "after_inserted">>
    /\ reg["a"] = <<"after_inserted">>
    /\ log = <<<<"append_child", <<"a", 0>>>>, <<"append_child", <<Parent, 0>>>>,
               <<"attach", <<"a", 1>>>>, <<"attach", <<Parent, 2>>>>>>

\* The listeners that the event and global_event calls of a builder added.
EventIds(n) ==
    {<<n, k>> : k \in {k \in DOMAIN reg[n] : reg[n][k] \in {"event", "global_event"}}}

\* C13: every event or global_event call adds one listener and registers
\* one detach action for it; when the detach phase of the node runs, at the
\* drop of a Dom never attached or at the discard of its handle, every
\* listener the builder added is removed once, none of them remains, and
\* the listeners of another builder all remain.
C13_ListenersRemoved ==
    [][/\ (reg'[Parent] # reg[Parent] /\ EventIds(Parent)' # EventIds(Parent)) =>
             /\ subs' = subs \cup {NewId(Parent)}
             /\ NewId(Parent) \notin subs
             /\ cb'[Parent].after_remove =
                    Append(cb[Parent].after_remove, Action("listener", NewId(Parent)))
       /\ (phase'[Parent] # phase[Parent] /\ phase'[Parent] \in {"dropped", "detached"}) =>
             /\ \A id \in EventIds(Parent) :
                   /\ CountIn(log', "detach", id) = 1
                   /\ id \notin subs'
             /\ \A id \in EventIds("a") : id \in subs']_vars

\* The set_focused calls that the changes of the value fed call for.
FocExpected(fed) ==
    Concat([i \in DOMAIN fed |->
              LET last == IF i = 1 THEN FALSE ELSE fed[i - 1]
              IN  IF fed[i] # last THEN <<fed[i]>> ELSE <<>>])

\* C14: a started focused_signal binding calls set_focused exactly when the
\* value fed differs from the value before it, the value before the first
\* one counting as false; equal values in a row give no call.
C14_FocusEdgeTriggered == focCalls = FocExpected(focFed)

\* A step in which the signal is polled, and the result of that poll.
Polled == winYield' # winYield

LastYield == winYield'[Len(winYield')]

\* The values the signal has yielded, without the polls that gave none.
Yielded(y) == SelectSeq(y, LAMBDA r : r \in {"true", "false"})

\* C15: when the document is complete at the first poll, that poll yields
\* true and moves the signal from Initial to Done, it never is Pending, no
\* load listener is ever added, and every later poll yields the end of the
\* stream.
C15_ReadyAtFirstPoll ==
    [][/\ (Polled /\ winState = "Initial" /\ readyState = "complete") =>
             /\ winYield' = <<"true">>
             /\ winState' = "Done"
       /\ (winYield' # <<>> /\ winYield'[1] = "true") =>
             /\ winState' # "Pending"
             /\ winAdds' = 0
             /\ winListeners' = 0
             /\ \A i \in 2..Len(winYield') : winYield'[i] = "None"]_vars

C15_Witness ==
    /\ winYield = <<"true", "None", "None">>
    /\ winState = "Done"
    /\ winAdds = 0

\* C16: when the document is not complete at the first poll, that poll
\* yields false, adds the one load listener and moves to Pending; a poll in
\* Pending yields nothing before the listener was called and true, with the
\* move to Done, after; a poll in Done yields the end of the stream.  The
\* values yielded are a prefix of [true] or of [false, true].
C16_PendingThenTrue ==
    [][Polled =>
          /\ (winState = "Initial" /\ readyState # "complete") =>
                /\ LastYield = "false"
                /\ winState' = "Pending"
                /\ winAdds = 0 /\ winAdds' = 1
          /\ (winState = "Pending" /\ ~winSent) =>
                LastYield = "NotReady" /\ winState' = "Pending"
          /\ (winState = "Pending" /\ winSent) =>
                LastYield = "true" /\ winState' = "Done"
          /\ winState = "Done" => LastYield = "None" /\ winState' = "Done"
          /\ Yielded(winYield') \in {<<>>, <<"true">>, <<"false">>, <<"false", "true">>}
          /\ winAdds' <= 1]_vars

C16_Witness ==
    /\ winYield = <<"false", "NotReady", "NotReady", "true", "None">>
    /\ winState = "Done"
    /\ winAdds = 1

\* C17: the load listener of the signal is on the window exactly while the
\* signal is Pending: it is removed when the signal moves to Done and when
\* the signal is dropped while Pending, and it is removed at most once.
C17_ListenerWhilePending ==
    /\ winListeners = IF winState = "Pending" THEN 1 ELSE 0
    /\ winRemoves <= 1
    /\ winRemoves <= winAdds
    /\ winState \in {"Done", "Dropped"} => winRemoves = winAdds

C17_Witness ==
    /\ winState = "Dropped"
    /\ winYield = <<"false", "NotReady">>
    /\ ~winSent
    /\ winAdds = 1
    /\ winRemoves = 1

\* Detach actions of one node run in registration order.
DetachInOrder ==
    \A n \in Nodes : \A i \in Events(log, "detach", n), j \in Events(log, "detach", n) :
        i < j => log[i][2][2] < log[j][2][2]

\* C18: detach actions run in registration order, and when the handle of a
\* parent is discarded every detach action of the children passed to
\* children has run by the time remove_child takes the parent out of the
\* tree, never after it.
C18_DetachBeforeRemoval ==
    /\ DetachInOrder
    /\ phase[Parent] = "detached" =>
          \A k \in StaticKids : \A id \in DetachIds(k) :
             \E i \in DOMAIN log, j \in DOMAIN log :
                /\ log[i] = <<"detach", id>>
                /\ log[j] = <<"remove_child", <<Parent, 0>>>>
                /\ i < j

\* C19: the discard of a handle whose node is no longer a child of the
\* recorded parent ends abnormally and runs no detach action of the node,
\* cancels nothing and leaves the tree as it is; the discard of a handle
\* whose node is still a child returns.
C19_DiscardOfRemovedNode ==
    [][(phase[Parent] = "attached" /\ phase'[Parent] \in {"detached", "panicked"}) =>
          IF Parent \in Range(tree[Body])
          THEN phase'[Parent] = "detached"
          ELSE /\ phase'[Parent] = "panicked"
               /\ Events(log, "detach", Parent)' = Events(log, "detach", Parent)
               /\ log' = log
               /\ subs' = subs
               /\ tree' = tree]_vars

C19_Witness ==
    /\ phase[Parent] = "panicked"
    /\ Parent \notin Range(tree[Body])
    /\ <<"append_child", <<Parent, 0>>>> \in Range(log)
    /\ "after_removed" \in Range(reg[Parent])
    /\ "signal" \in Range(reg[Parent])

\* The bindings driven by a signal from their registration on.
PureKinds == {"signal", "property_signal", "text_signal"}

\* C20: the call that registers a signal binding (attribute, style, class,
\* property, text) makes no call on the tree; the first call of a binding on
\* the tree comes in a later step, in which its subscribed signal produces
\* a value, so a binding whose signal produces nothing never touches it.
C20_NoCallAtRegistration ==
    [][\A id \in AllIds :
          /\ (KindOf(id) = "none" /\ KindOf(id)' \in PureKinds) =>
                /\ effect' = effect
                /\ tree' = tree
                /\ log' = log
          /\ (KindOf(id)' \in PureKinds /\ effect' = id /\ effect # id) =>
                /\ reg' = reg
                /\ id \in subs]_vars

C20_Witness ==
    /\ reg[Parent] = <<"property_signal", "signal">>
    /\ reg["a"] = <<"text_signal">>
    /\ effect = <<"a", 1>>
    /\ phase[Parent] = "attached"

\* The values among those fed that are a Some.
Somes(fed) == SelectSeq(fed, LAMBDA v : v # None)

\* C21: every Some(v) fed to a started scroll binding gives one set_scroll
\* call with v, also when v is the value fed before it; a None gives no call
\* and leaves the scroll position as it was.
C21_ScrollCalls ==
    [][/\ scrCalls' = Somes(scrFed')
       /\ \A v \in OptionF64 :
             (scrFed' = Append(scrFed, v)) =>
                IF v = None
                THEN scrCalls' = scrCalls /\ scrPos' = scrPos
                ELSE scrCalls' = Append(scrCalls, v) /\ scrPos' = v]_vars

C21_Witness ==
    /\ scrFed = <<"7.5", "7.5", None, "0.0", None>>
    /\ scrCalls = <<"7.5", "7.5", "0.0">>
    /\ scrPos = "0.0"

\* The state values that with_state gave to the release list of n.
StateIds(n) == {<<n, k>> : k \in {k \in DOMAIN reg[n] : reg[n][k] = "state"}}

\* C22: the state of a node built with with_state is released once, in the
\* detach phase of the node and after every detach action the initializer
\* registered: at the discard of the handle of an attached node, at the drop
\* of a node never attached; and it is not released before that.
C22_StateReleasedOnce ==
    \A id \in StateIds(Parent) :
        /\ CountIn(log, "detach", id) <= 1
        /\ phase[Parent] \in {"dom", "attached"} => CountIn(log, "detach", id) = 0
        /\ phase[Parent] \in {"detached", "dropped"} =>
              /\ CountIn(log, "detach", id) = 1
              /\ \A other \in DetachIds(Parent) \ {id} :
                    \E i \in DOMAIN log, j \in DOMAIN log :
                       /\ log[i] = <<"detach", other>>
                       /\ log[j] = <<"detach", id>>
                       /\ i < j

\* C23: while the load callback can still be called, the receiver is alive
\* and nothing was sent, so its send succeeds; while the signal is Pending,
\* the sender has sent or is alive, so a poll never finds the channel
\* cancelled; neither unwrap() has failed.
C23_UnwrapsNeverFail ==
    /\ winPanic = "none"
    /\ (winListeners > 0 /\ winSender) => (winReceiver /\ ~winSent)
    /\ winState = "Pending" => (winSent \/ winSender)
    /\ \A i \in DOMAIN winYield : winYield[i] # "Canceled"

C23_Witness ==
    /\ winState = "Pending"
    /\ winYield = <<"false", "NotReady">>
    /\ loadFired
    /\ winSent
    /\ ~winSender
    /\ winReceiver

\* The class names taken so far: those returned and those of calls under way.
NamesTaken ==
    Range(classNames)
        \cup {format_class(classPc[t].id) : t \in {t \in Threads : classPc[t].pc = "fetched"}}

\* C24: every ClassBuilder::new call takes the value of the one counter,
\* which starts at 0, and adds 1 to it, in one step; as long as no more calls
\* have begun than the counter has values, the names of any two calls
\* differ, whichever thread made them.
C24_ClassIdsDistinct ==
    [][/\ \A t \in Threads :
             (classPc[t].pc = "idle" /\ classPc'[t].pc = "fetched") =>
                /\ classPc'[t].id = CLASS_ID
                /\ CLASS_ID' = (CLASS_ID + 1) % UsizeMod
                /\ CLASS_ID = ClassCalls % UsizeMod
       /\ ClassCalls' <= UsizeMod =>
             /\ NamesTaken' = {format_class(i) : i \in 0..(ClassCalls' - 1)}
             /\ Cardinality(NamesTaken') = ClassCalls'
             /\ \A i \in DOMAIN classNames', j \in DOMAIN classNames' :
                   i # j => classNames'[i] # classNames'[j]]_vars

C24_Witness ==
    /\ classNames = <<format_class(1), format_class(0), format_class(3)>>
    /\ classPc["t1"] = [pc |-> "fetched", id |-> 2]
    /\ CLASS_ID = 4

====
